---- MODULE Spec2Model ----
(***************************************************************************)
(* NZTA deregistered-VIN import: the Flask entrypoint (app/main.py), the   *)
(* ingest pipeline and its per-file routine, the sync pipeline, the        *)
(* BigQuery staging repository (app/stage_repository.py) and the SugarCRM  *)
(* client (app/sugar_client.py).                                           *)
(*                                                                         *)
(* One invocation runs at a time (the code is single-threaded and keeps no *)
(* state between requests other than the staging table, the bucket and the *)
(* FTP directory).  Every call to a collaborator (FTP, bucket, BigQuery,   *)
(* CRM) draws its outcome from the outcomes that call can have.            *)
(***************************************************************************)
EXTENDS Naturals, Sequences, FiniteSets, TLC

VARIABLES
    pc,        \* position of the running invocation, "idle" between invocations
    calls,     \* invocations started so far (calls made, for the store alone)
    faulted,   \* whether a step of the running ingest invocation has failed
    response,  \* what the last finished invocation handed back to its caller
    remote,    \* names of the files lying in the FTP directory
    blobs,     \* the bucket: a set of [id, name, loc] (loc: raw, processed, error)
    rows,      \* the staging table: a sequence of rows, stage_id = position
    loop,      \* execute_ingest_pipeline: listing, position, processed_reports
    job,       \* _ingest_single_file: its locals
    sync,      \* execute_sync_pipeline: its locals
    token,     \* SugarCrmClient._access_token is set
    attempts,  \* _run_update_query: its counter when the last step's mutation ended
    lastMut,   \* the store mutation that ended in the last step, and how
    lastReq,   \* the CRM call made in the last step, and what it sent
    deletion,  \* the ftp.delete_file calls of the per-file routine run last
    fetched,   \* the last fetch_by_status call made on the store alone
    bq,        \* the BigQuery dataset and table, and the ensure_resources calls
    mail,      \* the notification handed to notifier.send in the last step
    cut        \* rows a cut-off sync invocation had fetched and not touched

vars == <<pc, calls, faulted, response, remote, blobs, rows, loop, job, sync,
          token, attempts, lastMut, lastReq, deletion, fetched, bq, mail,
          cut>>

----------------------------------------------------------------------------
(* Bounds of the model *)

\* invocations (POSTs and per-file calls) in one behaviour
MaxCalls == 3
\* rows the staging table may hold
MaxRows == 3
\* distinct times of day (%H%M%S) an upload can fall on
MaxStamp == 2
\* ensure_resources calls one running instance of the service makes
MaxEnsure == 2
\* rows of a table fetch_by_status is run on alone
MaxTable == 3
\* the latest minute a row of such a table was created in
MaxMinute == 2
\* the largest min_age_minutes passed to fetch_by_status
MaxAge == 2
\* failures or file reports a summary notification is built from
MaxLines == 2
\* rows of the table the sync cycles are repeated on
MaxBatch == 3

(* Program constants *)

STREAMING_BUFFER_RETRIES == 12

\* names of the files the FTP directory can hold, and what each decodes to
\* (the VINs of its eligible rows); the same VIN appears in both files
FileNames == {"f1.csv", "f2.csv"}

\* what the FTP directory can hold when the service starts: the files that
\* match the pattern, or none
Listings == {FileNames, {}}
FileRecords(name) == IF name = "f1.csv" THEN <<"AAA", "BBB">> ELSE <<"AAA">>

NoKey == [stamp |-> 0, name |-> "-"]
NoError == "NULL"
NotFoundMessage == "Vehicle not found in SugarCRM"
\* str(exc) of an exception raised by the CRM client or by the store; the
\* pipelines only copy the text, so the texts are not told apart
ExcText == "str(exc)"
RequestFailed == ExcText
NotPersisted == ExcText
StoreFailed == ExcText

----------------------------------------------------------------------------
(* StageRepository *)

\* one row as stage_records builds it
PendingRow(vin, source_filename) ==
    [vin |-> vin, source_filename |-> source_filename,
     status |-> "pending", error_message |-> NoError]

\* the rows insert_rows_json appends; stage_id is a fresh uuid4, here the
\* position the row takes in the table
StagedRows(records, source_filename) ==
    [i \in 1..Len(records) |-> PendingRow(records[i], source_filename)]

\* a plausible slip: the UPDATE keyed by the VIN of the row, not by its id
UpdateStatusByVin(rs, stage_id, status, error_message) ==
    [i \in DOMAIN rs |->
        IF rs[i].vin = rs[stage_id].vin
        THEN [rs[i] EXCEPT !.status = status, !.error_message = error_message]
        ELSE rs[i]]

\* a plausible slip: the status written without the error_message
UpdateStatusAlone(rs, stage_id, status, error_message) ==
    [i \in DOMAIN rs |->
        IF i = stage_id THEN [rs[i] EXCEPT !.status = status] ELSE rs[i]]

\* UPDATE ... SET status, error_message WHERE id = @id
UpdateStatus(rs, stage_id, status, error_message) ==
    [i \in DOMAIN rs |->
        IF i = stage_id
        THEN [rs[i] EXCEPT !.status = status, !.error_message = error_message]
        ELSE rs[i]]

MarkPushed(rs, stage_id) == UpdateStatus(rs, stage_id, "pushed", NoError)

\* a plausible slip: record_error returning without having changed the row
RecordErrorDropped(rs, stage_id, error_message) == rs

\* a plausible slip: the failure recorded without its message
RecordErrorNoMessage(rs, stage_id, error_message) ==
    UpdateStatus(rs, stage_id, "failed", NoError)

\* a plausible slip: record_error writing the status of mark_pushed
RecordErrorAsPushed(rs, stage_id, error_message) ==
    UpdateStatus(rs, stage_id, "pushed", error_message)

RecordError(rs, stage_id, error_message) ==
    UpdateStatus(rs, stage_id, "failed", error_message)

\* a plausible slip: the bulk update without its status = 'pending' condition
MarkFailedByFileAnyStatus(rs, source_filename, error_message) ==
    [i \in DOMAIN rs |->
        IF rs[i].source_filename = source_filename
        THEN [rs[i] EXCEPT !.status = "failed", !.error_message = error_message]
        ELSE rs[i]]

\* UPDATE ... SET status = 'failed', error_message
\* WHERE source_filename = @file_name AND status = 'pending'
MarkFailedByFile(rs, source_filename, error_message) ==
    [i \in DOMAIN rs |->
        IF rs[i].source_filename = source_filename /\ rs[i].status = "pending"
        THEN [rs[i] EXCEPT !.status = "failed", !.error_message = error_message]
        ELSE rs[i]]

\* a plausible slip: the age condition with <= for <
OlderOrEqual(date_created, min_age, now) == date_created <= now - min_age

\* date_created < TIMESTAMP_SUB(CURRENT_TIMESTAMP(), INTERVAL @min_age MINUTE),
\* times counted in minutes
Older(date_created, min_age, now) == date_created < now - min_age

\* a plausible slip: failed rows selected along with the pending ones, to
\* be tried again
SelectedOrFailed(row, status, min_age, now) ==
    /\ row.status \in {status, "failed"}
    /\ (min_age = 0 \/ Older(row.date_created, min_age, now))

\* the WHERE clause of fetch_by_status: status = @status
\* AND (@min_age = 0 OR date_created < ...)
Selected(row, status, min_age, now) ==
    /\ row.status = status
    /\ (min_age = 0 \/ Older(row.date_created, min_age, now))

\* SELECT id ... WHERE ..., the ids in table order
RECURSIVE FetchFrom(_, _, _, _, _)
FetchFrom(rs, status, min_age, now, i) ==
    IF i > Len(rs) THEN <<>>
    ELSE (IF Selected(rs[i], status, min_age, now) THEN <<i>> ELSE <<>>)
         \o FetchFrom(rs, status, min_age, now, i + 1)

\* a plausible slip: the query without its WHERE clause
FetchByStatusAny(rs, status, min_age, now) == [i \in 1..Len(rs) |-> i]

\* fetch_by_status(status, min_age_minutes) run when CURRENT_TIMESTAMP() is now
FetchByStatus(rs, status, min_age, now) == FetchFrom(rs, status, min_age, now, 1)


\* a plausible slip: the budget test off by one
RunUpdateControlOffByOne(outcome, n) ==
    IF outcome = "ok" THEN "return"
    ELSE IF outcome = "streaming" /\ n <= STREAMING_BUFFER_RETRIES THEN "retry"
    ELSE "raise"

\* a plausible slip: giving up quietly once the budget is spent
RunUpdateControlSwallow(outcome, n) ==
    IF outcome = "ok" THEN "return"
    ELSE IF outcome = "streaming" /\ n < STREAMING_BUFFER_RETRIES THEN "retry"
    ELSE IF outcome = "streaming" THEN "return"
    ELSE "raise"

\* the body of the while True loop: what follows a query's outcome when
\* `n` retries have been made so far
\* a plausible slip: every rejection retried while the budget lasts
RunUpdateControlRetriesAny(outcome, n) ==
    IF outcome = "ok" THEN "return"
    ELSE IF n < STREAMING_BUFFER_RETRIES THEN "retry"
    ELSE "raise"

RunUpdateControl(outcome, n) ==
    IF outcome = "ok" THEN "return"
    ELSE IF outcome = "streaming" /\ n < STREAMING_BUFFER_RETRIES THEN "retry"
    ELSE "raise"

\* the answers of the store to the successive queries of one mutation: `k`
\* streaming-buffer rejections, then `final`
\* what the store answers to each query of one mutation, as often as the
\* query is issued: k streaming-buffer rejections, then the final answer
Answers(k, final) ==
    [i \in 1..(STREAMING_BUFFER_RETRIES + 2) |->
        IF i <= k THEN "streaming" ELSE final]

\* _run_update_query against those answers, `n` retries made so far: how it
\* ends ("return" or "raise"), on which answer, and the value of `attempts`
RECURSIVE RunUpdateLoop(_, _)
RunUpdateLoop(answers, n) ==
    LET ctl == RunUpdateControl(Head(answers), n) IN
    IF ctl = "retry" THEN RunUpdateLoop(Tail(answers), n + 1)
    ELSE [ctl |-> ctl, cause |-> Head(answers), attempts |-> n]

----------------------------------------------------------------------------
(* SugarCrmClient *)

\* what the CRM can answer to the lookup GET and to the update PUT; "exc" is a
\* transport exception raised by session.request; a PUT answered 200 with JSON
\* echoes both intended values ("echo"), neither ("stale"), the date only
\* ("stale_status") or the status only ("stale_date")
GetResponses == {"found", "none", "401", "500", "exc"}
PutResponses == {"echo", "stale", "stale_status", "stale_date", "nonjson",
                 "401", "500", "exc"}
AuthOutcomes == {"ok", "fail"}

Sent(outcome, resp, sent, auths, tok, error) ==
    [outcome |-> outcome, resp |-> resp, sent |-> sent, auths |-> auths,
     token |-> tok, error |-> error]

\* a plausible slip: retrying again when the retry is answered 401 too
RequestRetryAgain(tok, r1, a, r2) ==
    IF ~tok THEN Sent("raise", "-", 0, 0, tok, RequestFailed)
    ELSE IF r1 = "exc" THEN Sent("raise", "-", 1, 0, tok, RequestFailed)
    ELSE IF r1 # "401" THEN Sent("return", r1, 1, 0, tok, "")
    ELSE IF a = "fail" THEN Sent("raise", "-", 1, 1, tok, RequestFailed)
    ELSE IF r2 = "exc" THEN Sent("raise", "-", 2, 1, TRUE, RequestFailed)
    ELSE IF r2 = "401" THEN Sent("return", r2, 3, 2, TRUE, "")
    ELSE Sent("return", r2, 2, 1, TRUE, "")

\* _request: r1 answers the first request; on a 401, `a` is how authenticate()
\* ends and r2 answers the retry
Request(tok, r1, a, r2) ==
    IF ~tok THEN Sent("raise", "-", 0, 0, tok, RequestFailed)
    ELSE IF r1 = "exc" THEN Sent("raise", "-", 1, 0, tok, RequestFailed)
    ELSE IF r1 # "401" THEN Sent("return", r1, 1, 0, tok, "")
    ELSE IF a = "fail" THEN Sent("raise", "-", 1, 1, tok, RequestFailed)
    ELSE IF r2 = "exc" THEN Sent("raise", "-", 2, 1, TRUE, RequestFailed)
    ELSE Sent("return", r2, 2, 1, TRUE, "")

\* response.raise_for_status()
HttpError(resp) == IF resp \in {"401", "500"} THEN RequestFailed ELSE ""

\* a plausible slip: a lookup that answers "no match" when its request fails
FindVehicleIdSwallow(tok, r1, a, r2) ==
    LET q == Request(tok, r1, a, r2) IN
    IF q.outcome = "raise" \/ HttpError(q.resp) # ""
    THEN [result |-> "none", error |-> "", req |-> q]
    ELSE [result |-> q.resp, error |-> "", req |-> q]

\* find_vehicle_id: "found" (an id), "none" (no record) or "raise"
FindVehicleId(tok, r1, a, r2) ==
    IF ~tok
    THEN [result |-> "raise", error |-> RequestFailed,
          req |-> Sent("raise", "-", 0, 0, tok, "")]
    ELSE LET q == Request(tok, r1, a, r2) IN
         IF q.outcome = "raise" THEN [result |-> "raise", error |-> q.error, req |-> q]
         ELSE IF HttpError(q.resp) # ""
              THEN [result |-> "raise", error |-> HttpError(q.resp), req |-> q]
         ELSE [result |-> q.resp, error |-> "", req |-> q]

\* body.get("vehicle_status_c") == "Deregistered"
EchoedStatus(resp) == resp \in {"echo", "stale_date"}

\* body.get("latest_dereg_date_c") == target_date
EchoedDate(resp) == resp \in {"echo", "stale_status"}

\* a plausible slip: the test of the echoed values with `and` for `or`
PersistedEither(resp) == EchoedStatus(resp) \/ EchoedDate(resp)

\* not (actual_status != target_status or actual_date != target_date)
Persisted(resp) == EchoedStatus(resp) /\ EchoedDate(resp)

\* update_vehicle: "ok" or "raise"
UpdateVehicle(tok, r1, a, r2) ==
    IF ~tok
    THEN [result |-> "raise", error |-> RequestFailed,
          req |-> Sent("raise", "-", 0, 0, tok, "")]
    ELSE LET q == Request(tok, r1, a, r2) IN
         IF q.outcome = "raise" THEN [result |-> "raise", error |-> q.error, req |-> q]
         ELSE IF HttpError(q.resp) # ""
              THEN [result |-> "raise", error |-> HttpError(q.resp), req |-> q]
         ELSE IF q.resp = "nonjson" \/ ~Persisted(q.resp)
              THEN [result |-> "raise", error |-> NotPersisted, req |-> q]
         ELSE [result |-> "ok", error |-> "", req |-> q]

\* a plausible slip: authenticate() that does not keep the token it was given
AuthenticateForgets(tok, a) == tok

\* authenticate(): _access_token after the call; raise_for_status leaves it
\* as it was when the token request fails
Authenticate(tok, a) == IF a = "ok" THEN TRUE ELSE tok

NoRequest == [op |-> "none", first |-> "-", sent |-> 0, auths |-> 0,
              resp |-> "-", result |-> "-"]

RequestLog(op, r1, res) ==
    [op |-> op, first |-> r1, sent |-> res.req.sent, auths |-> res.req.auths,
     resp |-> res.req.resp, result |-> res.result]

----------------------------------------------------------------------------
(* Shapes of the locals and of the response *)

\* crm: what the CRM calls made for each entry handled so far came to
\* ("none", "lookup raised", "update raised", "applied"); raised: a store
\* mutation of the cycle has raised
SyncIdle == [entries |-> <<>>, ei |-> 0, successes |-> 0, failures |-> <<>>,
             exc |-> "", crm |-> <<>>, raised |-> FALSE]

LoopIdle == [listing |-> <<>>, fi |-> 0, reports |-> <<>>, listed |-> FALSE]

\* the locals of _ingest_single_file; exc is the exception on its way out of
\* the function, caught the one bound by `except Exception as exc`, wrote and
\* inserted what insert_rows_json has written for the call
JobIdle == [id |-> 0, name |-> "-", source_filename |-> NoKey,
            current_file |-> "-", staged |-> FALSE, ftp_deleted |-> FALSE,
            records |-> <<>>, wrote |-> FALSE, exc |-> "", result |-> "-",
            caught |-> "", inserted |-> 0]

NoMutation == [op |-> "none", stage_id |-> 0, source_filename |-> NoKey,
               error_message |-> NoError, result |-> "none", cause |-> "-",
               rejections |-> 0]

\* no per-file routine has run in the invocation
NoDeletion == [name |-> "-", attempts |-> 0, willing |-> FALSE]

\* the instances of the service that can run an invocation at the same time
Procs == {1, 2}

\* an instance that has made no ensure_resources call; again: the call began
\* after an ensure_resources call had returned; creates: the create_dataset
\* and create_table calls it has made
NoCall == [pc |-> "idle", n |-> 0, again |-> FALSE, creates |-> 0,
           result |-> "-"]

\* an empty project: neither the dataset nor the table exists; made counts the
\* creations BigQuery has carried out
NoSchema == [dataset |-> FALSE, table |-> FALSE,
             made |-> [dataset |-> 0, table |-> 0],
             returned |-> FALSE, call |-> [p \in Procs |-> NoCall]]

NoFetch == [status |-> "-", min_age |-> 0, now |-> 0, ids |-> <<>>]

\* no notifier.send call
NoMail == [kind |-> "none", to |-> "-", lines |-> <<>>, send |-> "-"]

NoResponse == [route |-> "none", outcome |-> "none", status |-> "-",
               error |-> "", processed |-> 0, successes |-> 0,
               failures |-> <<>>, reports |-> <<>>]

\* the except clause of entrypoint: {"status": "error", "error": str(exc)}, 200
ErrorSummary(route, error) ==
    [route |-> route, outcome |-> "summary", status |-> "error",
     error |-> error, processed |-> 0, successes |-> 0,
     failures |-> <<>>, reports |-> <<>>]

\* an exception that leaves entrypoint: the caller gets no summary
Escaped(route, error) ==
    [route |-> route, outcome |-> "exception", status |-> "-",
     error |-> error, processed |-> 0, successes |-> 0,
     failures |-> <<>>, reports |-> <<>>]

Init ==
    /\ pc = "idle"
    /\ calls = 0
    /\ faulted = FALSE
    /\ response = NoResponse
    /\ remote \in Listings
    /\ blobs = {}
    /\ rows = <<>>
    /\ loop = LoopIdle
    /\ job = JobIdle
    /\ sync = SyncIdle
    /\ token = FALSE
    /\ attempts = 0
    /\ lastMut = NoMutation
    /\ lastReq = NoRequest
    /\ deletion = NoDeletion
    /\ fetched = NoFetch
    /\ cut = {}
    /\ bq = NoSchema
    /\ mail = NoMail

\* a step that ends no store mutation and makes no CRM call
Hush == lastMut' = NoMutation /\ lastReq' = NoRequest /\ attempts' = 0

\* such a step that sends no notification either
Quiet == Hush /\ mail' = NoMail

----------------------------------------------------------------------------
(* Notifications *)

\* how a notification can go: build_notifier gave no notifier ("disabled"),
\* notifier.send returned ("sent") or raised ("raise")
SendOutcomes == {"disabled", "sent", "raise"}

\* a plausible slip: the failure of notifier.send let through
AfterSendRaises(o) == IF o = "raise" THEN "raise" ELSE "return"

\* try: notifier.send(...) except Exception: logging.exception(...)
AfterSend(o) == "return"

\* the "Failed VINs:" lines of the body, "- {vin}: {error}" for each failure
FailedVins(failures) ==
    [i \in DOMAIN failures |->
        [vin |-> failures[i].vin, error |-> failures[i].error]]

\* a plausible slip: the sync summary always sent to the success recipients
SyncMailToSuccess(failures, o) ==
    IF o = "disabled" THEN NoMail
    ELSE [kind |-> "sync", to |-> "success_recipients",
          lines |-> FailedVins(failures), send |-> o]

\* _notify_sync_summary(notifier, summary, failures)
SyncMail(failures, o) ==
    IF o = "disabled" THEN NoMail
    ELSE [kind |-> "sync",
          to |-> IF failures # <<>> THEN "failure_recipients"
                 ELSE "success_recipients",
          lines |-> FailedVins(failures), send |-> o]

\* the "File results:" lines of the body, "- {name}: {status}" for each report
FileResults(summaries) ==
    [i \in DOMAIN summaries |->
        [name |-> summaries[i].source_filename, status |-> summaries[i].status]]

\* _notify_ingest_summary(notifier, summaries)
IngestMail(summaries, o) ==
    IF o = "disabled" \/ summaries = <<>> THEN NoMail
    ELSE [kind |-> "ingest",
          to |-> IF \E i \in DOMAIN summaries : summaries[i].status # "success"
                 THEN "failure_recipients" ELSE "success_recipients",
          lines |-> FileResults(summaries), send |-> o]

\* _notify_no_files(notifier, remote_path, pattern)
NoFilesMail(o) ==
    IF o = "disabled" THEN NoMail
    ELSE [kind |-> "nofiles", to |-> "success_recipients", lines |-> <<>>,
          send |-> o]

\* _handle_header_error(notifier, source_path, error): send without recipients
HeaderMail(o) ==
    IF o = "disabled" THEN NoMail
    ELSE [kind |-> "header", to |-> "default_recipients", lines |-> <<>>,
          send |-> o]

----------------------------------------------------------------------------
(* entrypoint *)

\* the JSON body of the POST: absent, or an object whose "message" is absent,
\* an object or a string, with "data" absent, base64 of JSON, base64 of other
\* text, base64 of bytes that are not UTF-8, or not base64 (wrong padding)
Bodies ==
    { [body |-> "none", message |-> "absent", data |-> "absent"],
      [body |-> "object", message |-> "absent", data |-> "absent"],
      [body |-> "object", message |-> "string", data |-> "absent"] }
    \cup [body : {"object"}, message : {"object"},
          data : {"absent", "json", "text", "binary", "malformed"}]

\* _decode_pubsub: "ok" (a payload comes back) or "raise"
DecodePubsub(b) ==
    IF b.body = "none" \/ b.message = "absent" THEN "ok"
    ELSE IF b.message # "object" THEN "raise"       \* str has no .get
    ELSE IF b.data = "absent" THEN "ok"
    ELSE IF b.data = "malformed" THEN "raise"       \* base64.b64decode
    ELSE IF b.data = "binary" THEN "raise"          \* .decode("utf-8")
    ELSE "ok"                                       \* json.loads, or {"raw": ...}

\* the end of an invocation: the locals are gone, the client objects too
Finish(resp) ==
    /\ pc' = "idle"
    /\ response' = resp
    /\ loop' = LoopIdle
    /\ job' = JobIdle
    /\ sync' = SyncIdle
    /\ token' = FALSE

\* POST /: the payload is decoded before the try block is entered
Post(mode, b) ==
    /\ pc = "idle"
    /\ calls < MaxCalls
    /\ calls' = calls + 1
    /\ faulted' = FALSE
    /\ deletion' = NoDeletion
    /\ IF DecodePubsub(b) = "raise"
       THEN Finish(Escaped(mode, "payload"))
       ELSE /\ pc' = IF mode = "sync" THEN "sync_setup" ELSE "ingest_setup"
            /\ response' = NoResponse
            /\ UNCHANGED <<loop, job, sync, token>>
    /\ Quiet
    /\ UNCHANGED <<fetched, remote, blobs, rows, bq, cut>>

----------------------------------------------------------------------------
(* execute_sync_pipeline *)

\* AppConfig.from_env, StageRepository, ensure_resources, authenticate
SyncSetup ==
    /\ pc = "sync_setup"
    /\ \E setup \in {"ok", "raise"}, a \in AuthOutcomes :
        IF setup = "raise"
        THEN Finish(ErrorSummary("sync", "setup failed"))
        ELSE IF a = "fail"
        THEN Finish(ErrorSummary("sync", RequestFailed))
        ELSE /\ token' = Authenticate(token, a)
             /\ pc' = "sync_fetch"
             /\ UNCHANGED <<response, loop, job, sync>>
    /\ Quiet
    /\ UNCHANGED <<deletion, fetched, calls, faulted, remote, blobs, rows,
                   bq, cut>>

\* a plausible slip: the status not looking at the failures
SyncSummaryAlwaysSuccess(s) ==
    [route |-> "sync", outcome |-> "summary", status |-> "success",
     error |-> "", processed |-> Len(s.entries), successes |-> s.successes,
     failures |-> s.failures, reports |-> <<>>]

SyncSummary(s) ==
    [route |-> "sync", outcome |-> "summary",
     status |-> IF s.failures = <<>> THEN "success" ELSE "partial",
     error |-> "", processed |-> Len(s.entries), successes |-> s.successes,
     failures |-> s.failures, reports |-> <<>>]

\* fetch_by_status(min_age_minutes), and the early return on an empty batch;
\* the cycle runs when every row of the table has the minimum age, so the age
\* condition lets every row through as it does for min_age = 0
SyncFetch ==
    /\ pc = "sync_fetch"
    /\ \E q \in {"ok", "raise"} :
        IF q = "raise"
        THEN /\ Finish(ErrorSummary("sync", "query failed"))
             /\ mail' = NoMail
             /\ UNCHANGED cut
        ELSE LET entries == FetchByStatus(rows, "pending", 0, 0) IN
             /\ cut' = {}
             /\ IF entries = <<>>
                THEN \E o \in SendOutcomes :
                       /\ mail' = SyncMail(<<>>, o)
                       /\ IF AfterSend(o) = "raise"
                          THEN Finish(ErrorSummary("sync", "send failed"))
                          ELSE Finish(SyncSummary(SyncIdle))
                ELSE /\ sync' = [SyncIdle EXCEPT !.entries = entries, !.ei = 1]
                     /\ pc' = "sync_find"
                     /\ mail' = NoMail
                     /\ UNCHANGED <<response, loop, job, token>>
    /\ Hush
    /\ UNCHANGED <<deletion, fetched, calls, faulted, remote, blobs, rows,
                   bq>>

Entry == sync.entries[sync.ei]

\* the positions inside the body of `for entry in entries`
SyncLoopPcs == {"sync_find", "sync_update", "sync_notfound",
                "sync_mark_pushed", "sync_handler"}

\* the positions of execute_sync_pipeline
SyncPcs == {"sync_setup", "sync_fetch", "sync_summary"} \cup SyncLoopPcs

\* a plausible slip: the branch on a lookup without result left out
AfterLookupUpdates(result) ==
    IF result = "raise" THEN "sync_handler" ELSE "sync_update"

\* where the loop body goes after the lookup: the except clause, the
\* `if not vehicle_id` branch, or update_vehicle
AfterLookup(result) ==
    IF result = "raise" THEN "sync_handler"
    ELSE IF result = "none" THEN "sync_notfound"
    ELSE "sync_update"

\* sugar.find_vehicle_id(record.vin) and the branch on its result
SyncFind ==
    /\ pc = "sync_find"
    /\ \E r1 \in GetResponses, a \in AuthOutcomes, r2 \in GetResponses :
        LET res == FindVehicleId(token, r1, a, r2) IN
        /\ token' = res.req.token
        /\ pc' = AfterLookup(res.result)
        /\ sync' = [sync EXCEPT
                      !.exc = res.error,
                      !.crm = IF res.result = "raise" THEN Append(@, "lookup raised")
                              ELSE IF res.result = "none" THEN Append(@, "none")
                              ELSE @]
        /\ lastReq' = RequestLog("find_vehicle_id", r1, res)
    /\ lastMut' = NoMutation
    /\ attempts' = 0
    /\ mail' = NoMail
    /\ UNCHANGED <<deletion, fetched, calls, faulted, response, remote,
                   blobs, rows, loop, job, bq, cut>>

\* sugar.update_vehicle(vehicle_id, record)
SyncUpdate ==
    /\ pc = "sync_update"
    /\ \E r1 \in PutResponses, a \in AuthOutcomes, r2 \in PutResponses :
        LET res == UpdateVehicle(token, r1, a, r2) IN
        /\ token' = res.req.token
        /\ pc' = IF res.result = "raise" THEN "sync_handler" ELSE "sync_mark_pushed"
        /\ sync' = [sync EXCEPT
                      !.exc = res.error,
                      !.crm = IF res.result = "raise" THEN Append(@, "update raised")
                              ELSE Append(@, "applied")]
        /\ lastReq' = RequestLog("update_vehicle", r1, res)
    /\ lastMut' = NoMutation
    /\ attempts' = 0
    /\ mail' = NoMail
    /\ UNCHANGED <<deletion, fetched, calls, faulted, response, remote,
                   blobs, rows, loop, job, bq, cut>>

\* the summary dict, _notify_sync_summary (a failed send is only logged), return
SyncReturn ==
    /\ pc = "sync_summary"
    /\ \E o \in SendOutcomes :
        /\ mail' = SyncMail(sync.failures, o)
        /\ IF AfterSend(o) = "raise"
           THEN Finish(ErrorSummary("sync", "send failed"))
           ELSE Finish(SyncSummary(sync))
    /\ Hush
    /\ UNCHANGED <<deletion, fetched, calls, faulted, remote, blobs, rows,
                   bq, cut>>

----------------------------------------------------------------------------
(* _ingest_single_file *)

\* how the collaborators of the per-file routine can answer
LoadOutcomes == {"ok", "empty", "header", "error"}
InsertOutcomes == {"ok", "rejected", "partial", "raise"}

Report(name, status, error, staged_records) ==
    [source_filename |-> name, status |-> status, error |-> error,
     staged_records |-> staged_records]

FileResponse(report) ==
    [route |-> "file", outcome |-> "report", status |-> report.status,
     error |-> report.error, processed |-> 1, successes |-> 0,
     failures |-> <<>>, reports |-> <<report>>]

\* f"Failed to ingest {filename}: {exc}"
FailureMessage(name, exc) == "Failed to ingest " \o name \o ": " \o exc

\* the report joins processed_reports (the try/except around the call); a call
\* made outside the loop of execute_ingest_pipeline hands its report back
EndFile(report, lp) ==
    IF lp.listed
    THEN /\ pc' = "ingest_iter"
         /\ loop' = [lp EXCEPT !.reports = Append(@, report)]
         /\ job' = JobIdle
         /\ UNCHANGED <<response, sync, token>>
    ELSE Finish(FileResponse(report))

\* upload_raw and the locals set up before the first try block; the blob name,
\* and with it source_filename, carries the time of day of the upload
StartFile(name, id, f0, lp) ==
    \E up \in {"ok", "raise"}, stamp \in 1..MaxStamp :
        IF up = "raise"
        THEN /\ faulted' = TRUE
             /\ deletion' = [NoDeletion EXCEPT !.name = name]
             /\ EndFile(Report(name, "error", "upload failed", 0), lp)
             /\ UNCHANGED blobs
        ELSE /\ faulted' = f0
             /\ deletion' = [NoDeletion EXCEPT !.name = name]
             /\ blobs' = blobs \cup {[id |-> id, name |-> name, loc |-> "raw"]}
             /\ job' = [JobIdle EXCEPT
                          !.id = id, !.name = name, !.current_file = "raw",
                          !.source_filename = [stamp |-> stamp, name |-> name]]
             /\ pc' = "file_delete"
             /\ loop' = lp
             /\ response' = NoResponse
             /\ UNCHANGED <<sync, token>>

\* _ingest_single_file called for a file of the FTP directory that has been
\* downloaded
IngestSingleFile(name) ==
    /\ pc = "idle"
    /\ calls < MaxCalls
    /\ name \in remote
    /\ Len(rows) + Len(FileRecords(name)) <= MaxRows
    /\ calls' = calls + 1
    /\ StartFile(name, calls + 1, FALSE, LoopIdle)
    /\ Quiet
    /\ UNCHANGED <<fetched, remote, rows, bq, cut>>

\* the methods class FtpDownloader defines
FtpDownloaderMethods ==
    {"__init__", "list_matching", "download_file", "iter_downloads", "_login"}

\* how ftp.delete_file(remote_file) can end: the attribute lookup raises
\* AttributeError when the class has no such method
DeleteOutcomes ==
    IF "delete_file" \in FtpDownloaderMethods THEN {"ok", "raise"} ELSE {"raise"}

\* what the FTP server would answer to a request to delete the file
ServerAnswers == {"ok", "raise"}

\* ftp.delete_file(remote_file) against a server that would answer `answer`
DeleteFile(answer) == IF answer \in DeleteOutcomes THEN answer ELSE "raise"

\* one more call of ftp.delete_file: the server was willing if it would have
\* answered any call so far with success
Attempted(del, answer) ==
    [del EXCEPT !.attempts = @ + 1, !.willing = (@ \/ answer = "ok")]

\* ftp.delete_file(remote_file) right after the upload; a failure is only logged
FirstDelete ==
    /\ pc = "file_delete"
    /\ \E answer \in ServerAnswers :
        LET d == DeleteFile(answer) IN
        /\ remote' = IF d = "ok" THEN remote \ {job.name} ELSE remote
        /\ job' = [job EXCEPT !.ftp_deleted = (d = "ok")]
        /\ deletion' = Attempted(deletion, answer)
    /\ pc' = "file_load"
    /\ Quiet
    /\ UNCHANGED <<fetched, calls, faulted, response, blobs, rows, loop,
                   sync, token, bq, cut>>

\* list(processor.load(local_path)); a bad header goes through
\* _handle_header_error (a mail whose failure is only logged) and is re-raised
Load ==
    /\ pc = "file_load"
    /\ \E o \in LoadOutcomes, m \in SendOutcomes :
        LET text == IF o = "header"
                    THEN (IF AfterSend(m) = "raise" THEN "send failed"
                          ELSE "Invalid CSV header")
                    ELSE "decode failed"
        IN
        /\ job' = IF o = "ok" THEN [job EXCEPT !.records = FileRecords(job.name)]
                  ELSE IF o = "empty" THEN job
                  ELSE [job EXCEPT !.exc = text, !.caught = text,
                                   !.result = "error"]
        /\ pc' = IF o \in {"ok", "empty"} THEN "file_stage" ELSE "file_escape"
        /\ mail' = IF o = "header" THEN HeaderMail(m) ELSE NoMail
    /\ Hush
    /\ UNCHANGED <<deletion, fetched, calls, faulted, response, remote,
                   blobs, rows, loop, sync, token, bq, cut>>

\* stage_records(records, source_filename) and staged = bool(staged_entries);
\* insert_rows_json answers with no error, with errors and nothing written,
\* with errors for some rows and the others written, or raises
Stage ==
    /\ pc = "file_stage"
    /\ \E o \in InsertOutcomes, k \in 0..Len(job.records) :
        LET new == StagedRows(job.records, job.source_filename)
            some == 0 < k /\ k < Len(new)
            text == IF o = "raise" THEN "insert raised"
                    ELSE "Failed to insert staged rows"
        IN
        IF job.records = <<>> \/ o = "ok"
        THEN /\ rows' = rows \o new
             /\ job' = [job EXCEPT !.staged = (job.records # <<>>),
                                   !.wrote = (job.records # <<>>),
                                   !.inserted = Len(new)]
             /\ pc' = "file_move"
        ELSE /\ rows' = IF o = "partial" /\ some THEN rows \o SubSeq(new, 1, k)
                        ELSE rows
             /\ job' = [job EXCEPT !.wrote = (o = "partial" /\ some),
                                   !.inserted = IF o = "partial" /\ some
                                                THEN k ELSE 0,
                                   !.exc = text, !.caught = text,
                                   !.result = "error"]
             /\ pc' = "file_escape"
    /\ Quiet
    /\ UNCHANGED <<deletion, fetched, calls, faulted, response, remote,
                   blobs, loop, sync, token, bq, cut>>

\* a plausible slip: a move made as a copy that leaves its source in place
MoveKeepsSource(bs, id, name, from, to) ==
    bs \cup {[id |-> id, name |-> name, loc |-> to]}

\* StorageWriter._move: bucket.rename_blob to the name under the new prefix
Move(bs, id, name, from, to) ==
    (bs \ {[id |-> id, name |-> name, loc |-> from]})
        \cup {[id |-> id, name |-> name, loc |-> to]}

\* move_to_processed(uploaded_file), then the summary is returned
MoveToProcessed ==
    /\ pc = "file_move"
    /\ \E mv \in {"ok", "raise"} :
        IF mv = "ok"
        THEN /\ blobs' = Move(blobs, job.id, job.name, "raw", "processed")
             /\ job' = [job EXCEPT !.current_file = "processed",
                                   !.result = "success"]
             /\ pc' = "file_finally"
        ELSE /\ job' = [job EXCEPT !.exc = "rename failed",
                                   !.caught = "rename failed",
                                   !.result = "error"]
             /\ pc' = "file_escape"
             /\ UNCHANGED blobs
    /\ Quiet
    /\ UNCHANGED <<deletion, fetched, calls, faulted, response, remote, rows,
                   loop, sync, token, bq, cut>>

\* the except clause: move_to_error(current_file), then the bulk failure when
\* staged is set; an exception of move_to_error leaves the clause at once
MoveToError ==
    /\ pc = "file_escape"
    /\ \E mv \in {"ok", "raise"} :
        IF mv = "ok"
        THEN /\ blobs' = Move(blobs, job.id, job.name, job.current_file, "error")
             /\ job' = [job EXCEPT !.current_file = "error"]
             /\ pc' = IF job.staged THEN "file_bulkfail" ELSE "file_finally"
        ELSE /\ job' = [job EXCEPT !.exc = "rename failed"]
             /\ pc' = "file_finally"
             /\ UNCHANGED blobs
    /\ Quiet
    /\ UNCHANGED <<deletion, fetched, calls, faulted, response, remote, rows,
                   loop, sync, token, bq, cut>>

\* a plausible slip: the finally clause without its second attempt
SecondAttemptNever(j) == FALSE

\* if not ftp_deleted
SecondAttempt(j) == ~j.ftp_deleted

\* the finally clause: one more ftp.delete_file when the first one failed; then
\* the function returns its summary or raises
FinalDelete ==
    /\ pc = "file_finally"
    /\ \E answer \in ServerAnswers :
        LET d == DeleteFile(answer) IN
        IF SecondAttempt(job)
        THEN /\ remote' = IF d = "ok" THEN remote \ {job.name} ELSE remote
             /\ deletion' = Attempted(deletion, answer)
        ELSE UNCHANGED <<remote, deletion>>
    /\ faulted' = (faulted \/ job.result = "error")
    /\ EndFile(Report(job.name, job.result,
                      IF job.result = "success" THEN "" ELSE job.exc,
                      Len(job.records)), loop)
    /\ Quiet
    /\ UNCHANGED <<fetched, calls, blobs, rows, bq, cut>>

----------------------------------------------------------------------------
(* execute_ingest_pipeline *)

\* iter_downloads yields (filename, path); the for statement of the pipeline
\* unpacks each item into filename, remote_file, local_path
IterTupleLen == 2
UnpackTargets == 3

Orderings(S) ==
    {f \in [1..Cardinality(S) -> S] : \A i, j \in DOMAIN f : f[i] = f[j] => i = j}

\* AppConfig.from_env, the client objects, ensure_resources
IngestSetup ==
    /\ pc = "ingest_setup"
    /\ \E setup \in {"ok", "raise"} :
        IF setup = "raise"
        THEN /\ faulted' = TRUE
             /\ Finish(ErrorSummary("ingest", "setup failed"))
        ELSE /\ pc' = "ingest_list"
             /\ UNCHANGED <<faulted, response, loop, job, sync, token>>
    /\ Quiet
    /\ UNCHANGED <<deletion, fetched, calls, remote, blobs, rows, bq, cut>>

\* the first step of the generator: list_matching(remote_dir, pattern)
IngestList ==
    /\ pc = "ingest_list"
    /\ \E ls \in {"ok", "raise"}, listing \in Orderings(remote) :
        IF ls = "raise"
        THEN /\ faulted' = TRUE
             /\ Finish(ErrorSummary("ingest", "listing failed"))
        ELSE /\ loop' = [LoopIdle EXCEPT !.listing = listing, !.listed = TRUE]
             /\ pc' = "ingest_iter"
             /\ UNCHANGED <<faulted, response, job, sync, token>>
    /\ Quiet
    /\ UNCHANGED <<deletion, fetched, calls, remote, blobs, rows, bq, cut>>

IngestSummary(lp) ==
    [route |-> "ingest", outcome |-> "summary", status |-> "-", error |-> "",
     processed |-> Len(lp.reports), successes |-> 0, failures |-> <<>>,
     reports |-> lp.reports]

\* one turn of the for statement: the generator downloads the next file and
\* yields, the item is unpacked, the body runs; when the generator is
\* exhausted the mails are sent (a failed send is only logged) and the summary
\* is returned.  An exception of the generator or of the unpacking is raised
\* in the for statement itself, outside the try block of the body.
IngestIter ==
    /\ pc = "ingest_iter"
    /\ IF loop.fi = Len(loop.listing)
       THEN \E o \in SendOutcomes :
            /\ mail' = IF loop.fi = 0 THEN NoFilesMail(o)
                       ELSE IngestMail(loop.reports, o)
            /\ IF AfterSend(o) = "raise"
               THEN Finish(ErrorSummary("ingest", "send failed"))
               ELSE Finish(IngestSummary(loop))
            /\ UNCHANGED <<faulted, blobs, deletion>>
       ELSE /\ mail' = NoMail
            /\ \E dl \in {"ok", "raise"} :
               IF dl = "raise"
               THEN /\ faulted' = TRUE
                    /\ Finish(ErrorSummary("ingest", "download failed"))
                    /\ UNCHANGED <<blobs, deletion>>
               ELSE IF IterTupleLen # UnpackTargets
               THEN /\ Finish(ErrorSummary("ingest",
                                           "not enough values to unpack"))
                    /\ UNCHANGED <<faulted, blobs, deletion>>
               ELSE StartFile(loop.listing[loop.fi + 1], calls, faulted,
                              [loop EXCEPT !.fi = loop.fi + 1])
    /\ Hush
    /\ UNCHANGED <<fetched, calls, remote, rows, bq, cut>>

----------------------------------------------------------------------------
(* _run_update_query, under mark_pushed, record_error and mark_failed_by_file *)

MutationPcs == {"sync_notfound", "sync_mark_pushed", "sync_handler",
                "file_bulkfail"}

Mutation(op, stage_id, source_filename, error_message) ==
    [op |-> op, stage_id |-> stage_id, source_filename |-> source_filename,
     error_message |-> error_message]

\* a plausible slip: the sync pipeline's except clause failing the whole
\* file of the entry instead of the entry
CurrentMutationBulk ==
    IF pc = "sync_notfound"
    THEN Mutation("record_error", Entry, NoKey, NotFoundMessage)
    ELSE IF pc = "sync_mark_pushed"
    THEN Mutation("mark_pushed", Entry, NoKey, NoError)
    ELSE IF pc = "sync_handler"
    THEN Mutation("mark_failed_by_file", 0, rows[Entry].source_filename,
                  sync.exc)
    ELSE Mutation("mark_failed_by_file", 0, job.source_filename,
                  FailureMessage(job.name, job.exc))

\* the mutation the running invocation is inside of
CurrentMutation ==
    IF pc = "sync_notfound"
    THEN Mutation("record_error", Entry, NoKey, NotFoundMessage)
    ELSE IF pc = "sync_mark_pushed"
    THEN Mutation("mark_pushed", Entry, NoKey, NoError)
    ELSE IF pc = "sync_handler"
    THEN Mutation("record_error", Entry, NoKey, sync.exc)
    ELSE Mutation("mark_failed_by_file", 0, job.source_filename,
                  FailureMessage(job.name, job.exc))

\* what the UPDATE statement of the mutation does to the table
ApplyMutation(rs, m) ==
    IF m.op = "mark_pushed" THEN MarkPushed(rs, m.stage_id)
    ELSE IF m.op = "record_error" THEN RecordError(rs, m.stage_id, m.error_message)
    ELSE MarkFailedByFile(rs, m.source_filename, m.error_message)

Failure(rs, s, error) ==
    [vin |-> rs[s.entries[s.ei]].vin, error |-> error,
     file_name |-> rs[s.entries[s.ei]].source_filename.name]

\* a plausible slip: leaving the loop after the first entry
AfterEntryBreak(s) == "sync_summary"

AfterEntry(s) == IF s.ei = Len(s.entries) THEN "sync_summary" ELSE "sync_find"

NextEntry(s) == [s EXCEPT !.ei = @ + 1, !.exc = ""]

\* the table after _run_update_query ended as `res`: the UPDATE is applied
\* when the store answered the last query with success
Applied(rs, m, res) == IF res.cause = "ok" THEN ApplyMutation(rs, m) ELSE rs

MutationLog(m, res, k) ==
    [op |-> m.op, stage_id |-> m.stage_id, source_filename |-> m.source_filename,
     error_message |-> m.error_message,
     result |-> IF res.ctl = "return" THEN "ok" ELSE "raised",
     cause |-> res.cause, rejections |-> k]

\* the store rejects no query of a mutation, or more queries than the budget
PipelineRejections == {0, STREAMING_BUFFER_RETRIES + 1}

\* a store mutation of the pipelines, and what follows it in the caller
RunUpdateQuery ==
    /\ pc \in MutationPcs
    /\ \E k \in PipelineRejections, final \in {"ok", "other"} :
        LET m == CurrentMutation
            res == RunUpdateLoop(Answers(k, final), 0)
        IN
        /\ rows' = Applied(rows, m, res)
        /\ lastMut' = MutationLog(m, res, k)
        /\ attempts' = res.attempts
        /\ IF pc = "file_bulkfail"
           THEN \* the first exception is re-raised, or the store's is raised
                /\ job' = IF res.ctl = "raise" THEN [job EXCEPT !.exc = StoreFailed]
                          ELSE job
                /\ pc' = "file_finally"
                /\ UNCHANGED <<response, loop, sync, token>>
           ELSE IF res.ctl = "raise" /\ pc = "sync_handler"
           THEN \* raised inside the except clause: the for loop is left
                Finish(ErrorSummary("sync", StoreFailed))
           ELSE IF res.ctl = "raise"
           THEN \* raised inside the try block: the except clause takes over
                /\ sync' = [sync EXCEPT !.exc = StoreFailed, !.raised = TRUE]
                /\ pc' = "sync_handler"
                /\ UNCHANGED <<response, loop, job, token>>
           ELSE /\ sync' = IF pc = "sync_mark_pushed"
                           THEN [NextEntry(sync) EXCEPT !.successes = @ + 1]
                           ELSE [NextEntry(sync) EXCEPT !.failures =
                                   Append(@, Failure(rows, sync, m.error_message))]
                /\ pc' = AfterEntry(sync)
                /\ UNCHANGED <<response, loop, job, token>>
    /\ lastReq' = NoRequest
    /\ mail' = NoMail
    /\ UNCHANGED <<deletion, fetched, calls, faulted, remote, blobs, bq,
                   cut>>

----------------------------------------------------------------------------
(* SugarCrmClient used without authenticate() *)

\* find_vehicle_id called on a client object that has just been constructed
ClientFind ==
    /\ pc = "idle"
    /\ calls < MaxCalls
    /\ calls' = calls + 1
    /\ \E r1 \in GetResponses, a \in AuthOutcomes, r2 \in GetResponses :
        LET res == FindVehicleId(token, r1, a, r2) IN
        /\ token' = res.req.token
        /\ lastReq' = RequestLog("find_vehicle_id", r1, res)
    /\ lastMut' = NoMutation
    /\ attempts' = 0
    /\ mail' = NoMail
    /\ UNCHANGED <<pc, faulted, response, remote, blobs, rows, loop, job,
                   sync, deletion, fetched, bq, cut>>

\* update_vehicle called on a client object that has just been constructed
ClientUpdate ==
    /\ pc = "idle"
    /\ calls < MaxCalls
    /\ calls' = calls + 1
    /\ \E r1 \in PutResponses, a \in AuthOutcomes, r2 \in PutResponses :
        LET res == UpdateVehicle(token, r1, a, r2) IN
        /\ token' = res.req.token
        /\ lastReq' = RequestLog("update_vehicle", r1, res)
    /\ lastMut' = NoMutation
    /\ attempts' = 0
    /\ mail' = NoMail
    /\ UNCHANGED <<pc, faulted, response, remote, blobs, rows, loop, job,
                   sync, deletion, fetched, bq, cut>>

----------------------------------------------------------------------------

Next ==
    \/ \E mode \in {"ingest", "sync"}, b \in Bodies : Post(mode, b)
    \/ IngestSetup
    \/ IngestList
    \/ IngestIter
    \/ \E name \in FileNames : IngestSingleFile(name)
    \/ FirstDelete
    \/ Load
    \/ Stage
    \/ MoveToProcessed
    \/ MoveToError
    \/ FinalDelete
    \/ SyncSetup
    \/ SyncFetch
    \/ SyncFind
    \/ SyncUpdate
    \/ SyncReturn
    \/ RunUpdateQuery
    \/ ClientFind
    \/ ClientUpdate

Spec == Init /\ [][Next]_vars

----------------------------------------------------------------------------
(* StageRepository taken alone: up to MaxCalls calls of its methods in any  *)
(* order, each mutation against any number of streaming-buffer rejections   *)

\* the error texts the callers pass to record_error
StoreMessages == {NotFoundMessage, ExcText}

\* the values of source_filename an upload can produce
StoreKeys == [stamp : 1..MaxStamp, name : FileNames]

\* streaming-buffer rejections a mutation can meet before its last answer
StoreRejections == 0..(STREAMING_BUFFER_RETRIES + 1)

\* _run_update_query against k rejections followed by `final`
\* how the query that is not rejected for the streaming buffer ends: it
\* succeeds, it raises BadRequest for another reason, or it raises another
\* exception
FinalAnswers == {"ok", "badrequest", "other"}

StoreOutcome ==
    [k \in StoreRejections, final \in FinalAnswers |->
        RunUpdateLoop(Answers(k, final), 0)]

\* stage_records(records, source_filename), the insert accepted
StoreStageRecords(key) ==
    /\ pc = "idle"
    /\ calls < MaxCalls
    /\ Len(rows) + Len(FileRecords(key.name)) <= MaxRows
    /\ calls' = calls + 1
    /\ rows' = rows \o StagedRows(FileRecords(key.name), key)
    /\ Quiet
    /\ UNCHANGED <<deletion, fetched, pc, faulted, response, remote, blobs,
                   loop, job, sync, token, bq, cut>>

\* _run_update_query for the mutation m
StoreRun(m) ==
    /\ pc = "idle"
    /\ calls < MaxCalls
    /\ calls' = calls + 1
    /\ \E k \in StoreRejections, final \in FinalAnswers :
        LET res == StoreOutcome[k, final] IN
        /\ rows' = Applied(rows, m, res)
        /\ lastMut' = MutationLog(m, res, k)
        /\ attempts' = res.attempts
    /\ lastReq' = NoRequest
    /\ mail' = NoMail
    /\ UNCHANGED <<deletion, fetched, pc, faulted, response, remote, blobs,
                   loop, job, sync, token, bq, cut>>

StoreMarkPushed(stage_id) ==
    StoreRun(Mutation("mark_pushed", stage_id, NoKey, NoError))

StoreRecordError(stage_id, error_message) ==
    StoreRun(Mutation("record_error", stage_id, NoKey, error_message))

StoreMarkFailedByFile(key) ==
    StoreRun(Mutation("mark_failed_by_file", 0, key,
                      FailureMessage(key.name, "rename failed")))

NextStore ==
    \/ \E key \in StoreKeys : StoreStageRecords(key)
    \/ \E stage_id \in DOMAIN rows : StoreMarkPushed(stage_id)
    \/ \E stage_id \in DOMAIN rows, error_message \in StoreMessages :
          StoreRecordError(stage_id, error_message)
    \/ \E key \in StoreKeys : StoreMarkFailedByFile(key)

SpecStore == Init /\ [][NextStore]_vars

----------------------------------------------------------------------------
(* fetch_by_status taken alone: the query run on any table of up to        *)
(* MaxTable rows, created in minutes 0..MaxMinute, in any status            *)

Statuses == {"pending", "pushed", "failed"}

\* status: str = "pending"
DefaultStatus == "pending"

\* a row of the table with its date_created column
DatedRow(status, date_created) ==
    [vin |-> "AAA", source_filename |-> [stamp |-> 1, name |-> "f1.csv"],
     status |-> status,
     error_message |-> IF status = "failed" THEN ExcText ELSE NoError,
     date_created |-> date_created]

DatedRows == {DatedRow(st, t) : st \in Statuses, t \in 0..MaxMinute}

FetchTables == UNION {[1..n -> DatedRows] : n \in 0..MaxTable}

\* CURRENT_TIMESTAMP() of a query: the rows it reads were created (their
\* date_created taken in stage_records) before it ran
QueryTimes == (MaxMinute + 1)..(MaxMinute + MaxAge + 1)

InitFetch ==
    /\ pc = "idle"
    /\ calls = 0
    /\ faulted = FALSE
    /\ response = NoResponse
    /\ remote = FileNames
    /\ blobs = {}
    /\ rows \in FetchTables
    /\ loop = LoopIdle
    /\ job = JobIdle
    /\ sync = SyncIdle
    /\ token = FALSE
    /\ attempts = 0
    /\ lastMut = NoMutation
    /\ lastReq = NoRequest
    /\ deletion = NoDeletion
    /\ fetched = NoFetch
    /\ cut = {}
    /\ bq = NoSchema
    /\ mail = NoMail

\* fetch_by_status(status, min_age_minutes) called at minute now
StoreFetchByStatus(status, min_age, now) ==
    /\ fetched' = [status |-> status, min_age |-> min_age, now |-> now,
                   ids |-> FetchByStatus(rows, status, min_age, now)]
    /\ UNCHANGED <<pc, calls, faulted, response, remote, blobs, rows, loop,
                   job, sync, token, attempts, lastMut, lastReq, deletion,
                   bq, mail, cut>>

NextFetch ==
    \E status \in Statuses, min_age \in 0..MaxAge, now \in QueryTimes :
        StoreFetchByStatus(status, min_age, now)

SpecFetch == InitFetch /\ [][NextFetch]_vars

----------------------------------------------------------------------------
(* ensure_resources taken alone: the instances of the service call it, each *)
(* up to MaxEnsure times, their BigQuery requests interleaving freely       *)

\* a plausible slip: a lookup that reports NotFound for what exists
GetOutcomeMissing(exists) == "NotFound"

\* client.get_dataset / client.get_table
GetOutcome(exists) == IF exists THEN "found" ELSE "NotFound"

\* client.create_dataset / client.create_table, called without exists_ok:
\* creating what exists raises Conflict
CreateOutcome(exists) == IF exists THEN "Conflict" ELSE "created"

EnsureOthers ==
    UNCHANGED <<pc, calls, faulted, response, remote, blobs, rows, loop, job,
                sync, token, attempts, lastMut, lastReq, deletion, fetched,
                mail, cut>>

\* ensure_resources() is entered
EnsureResources(p) ==
    /\ bq.call[p].pc = "idle"
    /\ bq.call[p].n < MaxEnsure
    /\ bq' = [bq EXCEPT !.call[p] =
                 [pc |-> "get_dataset", n |-> @.n + 1, again |-> bq.returned,
                  creates |-> 0, result |-> "-"]]
    /\ EnsureOthers

\* try: self.client.get_dataset(dataset_ref)
GetDataset(p) ==
    /\ bq.call[p].pc = "get_dataset"
    /\ bq' = [bq EXCEPT !.call[p].pc =
                 IF GetOutcome(bq.dataset) = "found" THEN "get_table"
                 ELSE "create_dataset"]
    /\ EnsureOthers

\* except NotFound: self.client.create_dataset(dataset)
CreateDataset(p) ==
    /\ bq.call[p].pc = "create_dataset"
    /\ bq' = IF CreateOutcome(bq.dataset) = "created"
             THEN [bq EXCEPT !.dataset = TRUE, !.made.dataset = @ + 1,
                             !.call[p].creates = @ + 1,
                             !.call[p].pc = "get_table"]
             ELSE [bq EXCEPT !.call[p].pc = "idle",
                             !.call[p].result = "raised"]
    /\ EnsureOthers

\* try: self.client.get_table(table_ref)
GetTable(p) ==
    /\ bq.call[p].pc = "get_table"
    /\ bq' = IF GetOutcome(bq.table) = "found"
             THEN [bq EXCEPT !.returned = TRUE, !.call[p].pc = "idle",
                             !.call[p].result = "returned"]
             ELSE [bq EXCEPT !.call[p].pc = "create_table"]
    /\ EnsureOthers

\* except NotFound: self.client.create_table(table)
CreateTable(p) ==
    /\ bq.call[p].pc = "create_table"
    /\ bq' = IF CreateOutcome(bq.table) = "created"
             THEN [bq EXCEPT !.table = TRUE, !.made.table = @ + 1,
                             !.returned = TRUE,
                             !.call[p].creates = @ + 1,
                             !.call[p].pc = "idle",
                             !.call[p].result = "returned"]
             ELSE [bq EXCEPT !.call[p].pc = "idle",
                             !.call[p].result = "raised"]
    /\ EnsureOthers

NextEnsure ==
    \E p \in Procs :
        \/ EnsureResources(p)
        \/ GetDataset(p)
        \/ CreateDataset(p)
        \/ GetTable(p)
        \/ CreateTable(p)

SpecEnsure == Init /\ [][NextEnsure]_vars

----------------------------------------------------------------------------
(* The two summary notifications on their own: _notify_sync_summary and
   _notify_ingest_summary called with any short list of failures and of file
   reports, as the pipelines build them. *)

\* what the sync loop appends to failures: the VIN, the message and the file
FailureItems ==
    {[vin |-> v, error |-> e, file_name |-> "f1.csv"] :
        v \in {"AAA", "BBB"}, e \in {NotFoundMessage, ExcText}}

\* what the ingest loop appends to processed_reports: the report of
\* _ingest_single_file or the error summary of the except clause
ReportItems ==
    {Report(n, "success", "", 1) : n \in FileNames}
        \cup {Report(n, "error", ExcText, 0) : n \in FileNames}

\* the lists of at most MaxLines items
ListsOf(S) == UNION {[1..n -> S] : n \in 0..MaxLines}

InitNotify ==
    /\ pc = "idle"
    /\ calls = 0
    /\ faulted = FALSE
    /\ response = NoResponse
    /\ remote = FileNames
    /\ blobs = {}
    /\ rows = <<>>
    /\ loop \in {[LoopIdle EXCEPT !.reports = r] : r \in ListsOf(ReportItems)}
    /\ job = JobIdle
    /\ sync \in {[SyncIdle EXCEPT !.failures = f] : f \in ListsOf(FailureItems)}
    /\ token = FALSE
    /\ attempts = 0
    /\ lastMut = NoMutation
    /\ lastReq = NoRequest
    /\ deletion = NoDeletion
    /\ fetched = NoFetch
    /\ cut = {}
    /\ bq = NoSchema
    /\ mail = NoMail

NotifyOthers ==
    UNCHANGED <<pc, calls, faulted, response, remote, blobs, rows, loop, job,
                sync, token, attempts, lastMut, lastReq, deletion, fetched,
                bq, cut>>

\* _notify_sync_summary(notifier, summary, failures)
NotifySyncSummary ==
    /\ \E o \in SendOutcomes : mail' = SyncMail(sync.failures, o)
    /\ NotifyOthers

\* _notify_ingest_summary(notifier, processed_reports)
NotifyIngestSummary ==
    /\ \E o \in SendOutcomes : mail' = IngestMail(loop.reports, o)
    /\ NotifyOthers

NextNotify == NotifySyncSummary \/ NotifyIngestSummary

SpecNotify == InitNotify /\ [][NextNotify]_vars

----------------------------------------------------------------------------
(* execute_sync_pipeline run again and again by its trigger, on a table of
   up to MaxBatch rows; the platform may end an invocation at any point (the
   trigger's time-out), and the invocation's locals are lost with it *)

\* a row of the table when the cycles start
StartRow(i, status) ==
    [PendingRow(IF i = 1 THEN "AAA" ELSE "BBB", [stamp |-> 1, name |-> "f1.csv"])
        EXCEPT !.status = status,
               !.error_message = IF status = "failed" THEN ExcText ELSE NoError]

StartTables ==
    UNION {{[i \in 1..n |-> StartRow(i, st[i])] : st \in [1..n -> Statuses]} :
              n \in 1..MaxBatch}

InitResume ==
    /\ pc = "idle"
    /\ calls = 0
    /\ faulted = FALSE
    /\ response = NoResponse
    /\ remote = {}
    /\ blobs = {}
    /\ rows \in StartTables
    /\ loop = LoopIdle
    /\ job = JobIdle
    /\ sync = SyncIdle
    /\ token = FALSE
    /\ attempts = 0
    /\ lastMut = NoMutation
    /\ lastReq = NoRequest
    /\ deletion = NoDeletion
    /\ fetched = NoFetch
    /\ bq = NoSchema
    /\ mail = NoMail
    /\ cut = {}

\* the trigger posts to the sync service: entrypoint calls
\* execute_sync_pipeline
Cycle ==
    /\ pc = "idle"
    /\ pc' = "sync_setup"
    /\ response' = NoResponse
    /\ faulted' = FALSE
    /\ Quiet
    /\ UNCHANGED <<calls, remote, blobs, rows, loop, job, sync, token, deletion,
                   fetched, bq, cut>>

\* the entries of the batch the invocation has not come to: the current one
\* before its lookup, and those after it
Untouched ==
    IF pc \notin SyncLoopPcs THEN {}
    ELSE {sync.entries[k] :
            k \in (IF pc = "sync_find" THEN sync.ei ELSE sync.ei + 1)
                      ..Len(sync.entries)}

\* the invocation ends where it is; an UPDATE it was running is applied or
\* not
CutOff ==
    /\ pc \in SyncPcs
    /\ cut' = cut \cup Untouched
    /\ rows' \in IF pc \in MutationPcs
                 THEN {rows, ApplyMutation(rows, CurrentMutation)}
                 ELSE {rows}
    /\ Finish(NoResponse)
    /\ Quiet
    /\ UNCHANGED <<calls, faulted, remote, blobs, deletion, fetched, bq>>

NextResume ==
    \/ Cycle
    \/ SyncSetup
    \/ SyncFetch
    \/ SyncFind
    \/ SyncUpdate
    \/ RunUpdateQuery
    \/ SyncReturn
    \/ CutOff

\* ensure_resources and authenticate return, the fetch query returns, the
\* UPDATE of a mutation is accepted
SetupCompletes == SyncSetup /\ pc' = "sync_fetch"
FetchCompletes ==
    SyncFetch /\ (pc' = "sync_find" \/ response'.status = "success")
MutationCompletes == RunUpdateQuery /\ lastMut'.cause = "ok"

\* the trigger keeps firing, and CRM and store calls complete again and again
\* (not every invocation is cut off at the same call, not every call fails)
CallsComplete ==
    /\ SF_vars(Cycle)
    /\ SF_vars(SetupCompletes)
    /\ SF_vars(FetchCompletes)
    /\ SF_vars(SyncFind)
    /\ SF_vars(SyncUpdate)
    /\ SF_vars(MutationCompletes)

SpecResume == InitResume /\ [][NextResume]_vars /\ CallsComplete

----------------------------------------------------------------------------
(* Properties *)

\* C1: under the store operations the ingest and sync pipelines issue, a row's
\* status changes only from pending to pushed or from pending to failed; a
\* pushed row never changes status again, no row returns to pending, and no
\* row disappears.
StatusMonotonic ==
    [][/\ Len(rows') >= Len(rows)
       /\ \A i \in DOMAIN rows :
            /\ rows'[i].status # rows[i].status
                 => /\ rows[i].status = "pending"
                    /\ rows'[i].status \in {"pushed", "failed"}
            /\ rows[i].status = "pushed" => rows'[i].status = "pushed"
            /\ rows'[i].status = "pending" => rows[i].status = "pending"]_vars

\* C1, its case: the per-file routine has just bulk-failed a file whose name
\* is also carried by a row that an earlier sync cycle pushed.
StatusMonotonicWitness ==
    /\ lastMut.op = "mark_failed_by_file"
    /\ lastMut.result = "ok"
    /\ \E i, j \in DOMAIN rows :
        /\ rows[i].source_filename = lastMut.source_filename
        /\ rows[i].status = "pushed"
        /\ rows[j].source_filename = lastMut.source_filename
        /\ rows[j].status = "failed"

\* C2 as stated: while entries of the fetched batch remain, whatever the
\* lookup, the update and the store mutations of the current entry do, the
\* sync loop goes on (one record's failure never aborts its siblings).
SiblingsProcessed ==
    [][(pc \in SyncLoopPcs /\ sync.ei < Len(sync.entries))
          => pc' \in SyncLoopPcs]_vars

\* C3 as stated: no POST, whatever its payload and whatever fails inside the
\* pipeline, ends with an exception leaving entrypoint.
NoEscape == response.outcome # "exception"

\* C4 as stated: an ingest invocation in which a listed file failed at one of
\* its steps still returns a summary with one report per listed file.
OneReportPerListedFile ==
    [][(pc = "ingest_iter" /\ pc' = "idle" /\ faulted')
          => /\ response'.status # "error"
             /\ Len(response'.reports) = Len(loop.listing)]_vars

\* C5 as stated: an ingest invocation in which no step failed returns one
\* report per listed file, each with status "success".
AllSuccessIngest ==
    [][(pc = "ingest_iter" /\ pc' = "idle" /\ ~faulted')
          => /\ response'.status # "error"
             /\ Len(response'.reports) = Len(loop.listing)
             /\ \A i \in DOMAIN response'.reports :
                  response'.reports[i].status = "success"]_vars

\* C6 as stated: when _ingest_single_file is about to end with an error after
\* stage_records wrote the rows of the file, no row with its source_filename
\* is pending.
NoPendingAfterError ==
    (pc = "file_finally" /\ job.result = "error" /\ job.staged)
        => \A i \in DOMAIN rows :
             rows[i].source_filename = job.source_filename
                => rows[i].status # "pending"

\* C7: a mutation makes at most STREAMING_BUFFER_RETRIES retries (so at most
\* 13 queries); every streaming-buffer rejection within that budget is
\* followed by a retry; it returns on the first query that succeeds; and when
\* it raises for a streaming-buffer rejection the whole budget has been spent.
RetryBudget ==
    lastMut.op # "none" =>
        /\ attempts <= STREAMING_BUFFER_RETRIES
        /\ lastMut.rejections <= STREAMING_BUFFER_RETRIES
             => (attempts = lastMut.rejections /\ lastMut.cause # "streaming")
        /\ lastMut.result = "ok" <=> lastMut.cause = "ok"
        /\ (lastMut.result = "raised" /\ lastMut.cause = "streaming")
             => /\ attempts = STREAMING_BUFFER_RETRIES
                /\ lastMut.rejections > STREAMING_BUFFER_RETRIES

\* C7, its case: a mutation rejected 13 times has raised after 12 retries.
RetryBudgetWitness ==
    /\ lastMut.result = "raised"
    /\ lastMut.cause = "streaming"
    /\ lastMut.rejections = STREAMING_BUFFER_RETRIES + 1
    /\ attempts = STREAMING_BUFFER_RETRIES

\* C8: when mark_pushed, record_error or mark_failed_by_file has returned
\* without raising, the targeted row carries the new status and message, and
\* no row of the targeted file is pending.
ReturnMeansApplied ==
    lastMut.result = "ok" =>
        IF lastMut.op = "mark_pushed"
        THEN /\ rows[lastMut.stage_id].status = "pushed"
             /\ rows[lastMut.stage_id].error_message = NoError
        ELSE IF lastMut.op = "record_error"
        THEN /\ rows[lastMut.stage_id].status = "failed"
             /\ rows[lastMut.stage_id].error_message = lastMut.error_message
        ELSE \A i \in DOMAIN rows :
                rows[i].source_filename = lastMut.source_filename
                   => rows[i].status # "pending"

\* C8, its case: record_error has returned after its query was rejected and
\* re-issued, and the row is failed with the message given.
ReturnMeansAppliedWitness ==
    /\ lastMut.op = "record_error"
    /\ lastMut.result = "ok"
    /\ attempts > 0
    /\ rows[lastMut.stage_id].status = "failed"

\* C9: one call of find_vehicle_id or update_vehicle sends at most two
\* requests and authenticates at most once; a second request is sent only
\* after a 401 and one authenticate(); a first 401 is followed by exactly one
\* authenticate() and, unless that fails, one retry; a 401 on the retry makes
\* the call raise.
RequestBound ==
    lastReq.op # "none" =>
        /\ lastReq.sent <= 2
        /\ lastReq.auths <= 1
        /\ lastReq.sent = 2 => (lastReq.first = "401" /\ lastReq.auths = 1)
        /\ (lastReq.sent >= 1 /\ lastReq.first = "401")
             => /\ lastReq.auths = 1
                /\ (lastReq.sent = 2 \/ lastReq.result = "raise")
        /\ (lastReq.sent >= 1 /\ lastReq.first # "401")
             => (lastReq.sent = 1 /\ lastReq.auths = 0)
        /\ (lastReq.sent = 2 /\ lastReq.resp = "401") => lastReq.result = "raise"

\* C9, its case: the retry that followed a 401 and a successful authenticate()
\* was answered 401 too, and the call raised.
RequestBoundWitness ==
    /\ lastReq.first = "401"
    /\ lastReq.sent = 2
    /\ lastReq.auths = 1
    /\ lastReq.resp = "401"
    /\ lastReq.result = "raise"

\* C10: a mark_failed_by_file(f, m) that returns changes exactly the rows
\* whose source_filename is f and whose status is pending, to failed with
\* message m; every other row is left as it was.
BulkFailFrame ==
    [][(lastMut'.op = "mark_failed_by_file" /\ lastMut'.result = "ok")
          => /\ DOMAIN rows' = DOMAIN rows
             /\ \A i \in DOMAIN rows :
                  rows'[i] =
                    IF /\ rows[i].source_filename = lastMut'.source_filename
                       /\ rows[i].status = "pending"
                    THEN [rows[i] EXCEPT
                            !.status = "failed",
                            !.error_message = lastMut'.error_message]
                    ELSE rows[i]]_vars

\* C10, its case: mark_failed_by_file has returned for a file that has a
\* pushed row, which it left alone, and a row it has just failed.
BulkFailFrameWitness ==
    /\ lastMut.op = "mark_failed_by_file"
    /\ lastMut.result = "ok"
    /\ \E i, j \in DOMAIN rows :
        /\ rows[i].source_filename = lastMut.source_filename
        /\ rows[i].status = "pushed"
        /\ rows[j].source_filename = lastMut.source_filename
        /\ rows[j].status = "failed"
        /\ rows[j].error_message = lastMut.error_message

\* the entries of the cycle whose CRM update was applied, and the others
AppliedEntries == {k \in DOMAIN sync.crm : sync.crm[k] = "applied"}
OtherEntries == DOMAIN sync.crm \ AppliedEntries

\* C11: when a sync cycle in which no store mutation raised reaches its
\* summary, the row of each entry is pushed exactly when the lookup found the
\* vehicle and the update succeeded; otherwise it is failed, with the "not
\* found" message when the lookup found nothing and with the exception's text
\* when the lookup or the update raised, and the failure list holds the VIN
\* with that text; successes and failures count those entries.
SyncOutcomes ==
    (pc = "sync_summary" /\ ~sync.raised) =>
        /\ DOMAIN sync.crm = DOMAIN sync.entries
        /\ \A k \in DOMAIN sync.entries :
             LET row == rows[sync.entries[k]]
                 text == IF sync.crm[k] = "none" THEN NotFoundMessage ELSE ExcText
             IN
             /\ row.status = "pushed" <=> k \in AppliedEntries
             /\ k \in OtherEntries =>
                  /\ row.status = "failed"
                  /\ row.error_message = text
                  /\ \E j \in DOMAIN sync.failures :
                       /\ sync.failures[j].vin = row.vin
                       /\ sync.failures[j].error = text
        /\ sync.successes = Cardinality(AppliedEntries)
        /\ Len(sync.failures) = Cardinality(OtherEntries)

\* C11, its case: a cycle over three entries, one not found, one whose update
\* raised, one applied, has reached its summary with no store mutation raised.
SyncOutcomesWitness ==
    /\ pc = "sync_summary"
    /\ ~sync.raised
    /\ \E a, b, c \in DOMAIN sync.crm :
        /\ sync.crm[a] = "none"
        /\ sync.crm[b] = "update raised"
        /\ sync.crm[c] = "applied"
    /\ sync.successes = 1
    /\ Len(sync.failures) = 2

\* C12: when execute_sync_pipeline reaches its summary, no row that the fetch
\* of the cycle returned is pending any more.
NoFetchedRowPending ==
    pc = "sync_summary" =>
        \A k \in DOMAIN sync.entries :
            rows[sync.entries[k]].status \in {"pushed", "failed"}

\* C12, its case: a cycle over several entries has reached its summary although
\* one of its store mutations raised.
NoFetchedRowPendingWitness ==
    /\ pc = "sync_summary"
    /\ Len(sync.entries) > 1
    /\ sync.raised

\* the positions inside _ingest_single_file after upload_raw, and among them
\* those after the first ftp.delete_file
FilePcs == {"file_delete", "file_load", "file_stage", "file_move",
            "file_escape", "file_bulkfail", "file_finally"}
AfterFirstDelete == FilePcs \ {"file_delete"}

\* C13: ftp.delete_file is first called when the raw copy exists and before
\* the file is decoded; it is called a second time exactly when the first call
\* failed, as the last step of the per-file routine (after staging, relocation
\* and bulk-fail); it is never called more than twice for a file.
DeleteOrder ==
    [][/\ deletion'.attempts <= 2
       /\ pc = "file_delete"
            => /\ deletion.attempts = 0
               /\ [id |-> job.id, name |-> job.name, loc |-> "raw"] \in blobs
       /\ pc \in AfterFirstDelete => deletion.attempts = 1
       /\ deletion'.attempts # deletion.attempts
            => \/ deletion'.attempts = 0
               \/ /\ pc = "file_delete"
                  /\ pc' = "file_load"
                  /\ deletion'.attempts = 1
               \/ /\ pc = "file_finally"
                  /\ pc' \notin FilePcs
                  /\ deletion'.attempts = 2
       /\ pc = "file_finally"
            => deletion'.attempts = IF job.ftp_deleted THEN 1 ELSE 2]_vars

\* C13, its case: a per-file call that went through the relocation to the
\* error location has ended with an error after the second ftp.delete_file.
DeleteOrderWitness ==
    /\ pc = "idle"
    /\ response.route = "file"
    /\ response.status = "error"
    /\ deletion.attempts = 2
    /\ \E b \in blobs : b.name = deletion.name /\ b.loc = "error"

\* C14 as stated: after a per-file call whose raw upload succeeded, the file
\* is gone from the FTP directory if the server was willing to delete it at
\* one of the ftp.delete_file calls.
SourceDeleted ==
    (pc = "idle" /\ deletion.attempts > 0 /\ deletion.willing)
        => deletion.name \notin remote

\* the stored copy of the file of the running per-file call is at `loc`
CopyAt(loc) == [id |-> job.id, name |-> job.name, loc |-> loc] \in blobs

\* the rows insert_rows_json has written for the running per-file call
BatchRows == (Len(rows) - job.inserted + 1)..Len(rows)

\* C15 as stated: when CsvProcessor.load raised HeaderValidationError, the
\* per-file call ends with no row written, the stored copy at the error
\* location and an "error" report.
HeaderMismatchRelocated ==
    (pc = "file_finally" /\ job.caught = "Invalid CSV header")
        => /\ ~job.wrote
           /\ job.inserted = 0
           /\ job.result = "error"
           /\ CopyAt("error")

\* C16 as stated: when stage_records returned rows and move_to_processed raised,
\* the per-file call ends with every row of the batch failed with the message
\* naming the file and with the stored copy at the error location.
RelocationFailureHandled ==
    (pc = "file_finally" /\ job.staged /\ job.caught = "rename failed")
        => /\ \A i \in BatchRows :
                /\ rows[i].status = "failed"
                /\ rows[i].error_message = FailureMessage(job.name, job.caught)
           /\ CopyAt("error")
           /\ ~CopyAt("processed")

\* C17 as stated: at the end of a per-file call the report is "success" exactly
\* when the stored copy is at the processed location, an "error" report has
\* the copy at the error location, no copy is at the raw location, and a copy
\* at the processed location stays there.
OutcomeMatchesLocation ==
    [][/\ pc = "file_finally"
            => /\ job.result = "success" <=> CopyAt("processed")
               /\ job.result = "error" => CopyAt("error")
               /\ ~CopyAt("raw")
       /\ \A b \in blobs : b.loc = "processed" => b \in blobs']_vars

\* C18: every upload_raw that succeeded has exactly one stored copy, at the
\* raw, the processed or the error location; a step neither doubles nor loses
\* the copy of an upload, and the file of a running per-file call has one.
OneLiveCopy ==
    [][/\ \A b \in blobs :
            /\ b.loc \in {"raw", "processed", "error"}
            /\ Cardinality({c \in blobs : c.id = b.id}) = 1
            /\ Cardinality({c \in blobs' : c.id = b.id /\ c.name = b.name}) = 1
       /\ pc \in FilePcs
            => Cardinality({c \in blobs : c.id = job.id /\ c.name = job.name}) = 1
       /\ (pc = "idle" /\ pc' = "file_delete")
            => Cardinality({c \in blobs' : c.id = job'.id}) = 1]_vars

\* C18, its case: one upload has been moved to the processed location and
\* another to the error location.
OneLiveCopyWitness ==
    \E b, c \in blobs : b.loc = "processed" /\ c.loc = "error"

\* C19 as stated: when insert_rows_json answered with row errors, the per-file
\* call ends with an "error" report and none of the rows the batch has written
\* is pending.
FailedBatchAccounted ==
    (pc = "file_finally" /\ job.caught = "Failed to insert staged rows")
        => /\ job.result = "error"
           /\ \A i \in BatchRows : rows[i].status # "pending"

\* the rows the last fetch_by_status call returned
FetchedIds == {fetched.ids[k] : k \in DOMAIN fetched.ids}

\* C20: fetch_by_status with the default status returns, each once, exactly
\* the pending rows created more than min_age_minutes before the query; with
\* min_age_minutes = 0 it returns every pending row; no returned row is pushed
\* or failed.
FetchPendingExact ==
    fetched.status = DefaultStatus =>
        /\ FetchedIds =
             {i \in DOMAIN rows :
                /\ rows[i].status = "pending"
                /\ fetched.now - rows[i].date_created > fetched.min_age}
        /\ Len(fetched.ids) = Cardinality(FetchedIds)
        /\ fetched.min_age = 0
             => FetchedIds = {i \in DOMAIN rows : rows[i].status = "pending"}
        /\ \A i \in FetchedIds : rows[i].status \notin {"pushed", "failed"}

\* C20, its case: a fetch with a minimum age has returned a pending row and
\* left out a pending row created exactly min_age_minutes before the query and
\* a pushed row that is old enough.
FetchPendingExactWitness ==
    /\ fetched.status = DefaultStatus
    /\ fetched.min_age > 0
    /\ FetchedIds # {}
    /\ \E i \in DOMAIN rows \ FetchedIds :
         /\ rows[i].status = "pending"
         /\ rows[i].date_created = fetched.now - fetched.min_age
    /\ \E i \in DOMAIN rows \ FetchedIds :
         /\ rows[i].status = "pushed"
         /\ rows[i].date_created < fetched.now - fetched.min_age

\* C21: stage_records only appends: the rows already in the table are left as
\* they are and every new row is pending under a stage_id no other row has;
\* mark_pushed and record_error change no row but the one of their stage_id,
\* so of two rows staged for one VIN from two files each keeps its own status.
StagingAppendOnly ==
    [][/\ Len(rows') >= Len(rows)
       /\ Len(rows') > Len(rows)
            => /\ \A i \in DOMAIN rows : rows'[i] = rows[i]
               /\ \A i \in DOMAIN rows' \ DOMAIN rows :
                    /\ rows'[i].status = "pending"
                    /\ rows'[i].error_message = NoError
       /\ lastMut'.op \in {"mark_pushed", "record_error"}
            => \A i \in DOMAIN rows \ {lastMut'.stage_id} : rows'[i] = rows[i]]_vars

\* C21, its case: one VIN staged from two files, and mark_pushed has just
\* been applied to one of the two rows while the other is still pending.
StagingAppendOnlyWitness ==
    /\ lastMut.op = "mark_pushed"
    /\ lastMut.result = "ok"
    /\ \E i, j \in DOMAIN rows :
         /\ i = lastMut.stage_id
         /\ j # i
         /\ rows[i].vin = rows[j].vin
         /\ rows[i].source_filename.name # rows[j].source_filename.name
         /\ rows[i].status = "pushed"
         /\ rows[j].status = "pending"

\* C22: a row becomes pushed only in the mark_pushed call that follows the
\* successful return of update_vehicle for that row's entry in the running
\* cycle; an entry whose lookup found nothing or whose update raised is never
\* pushed.
PushedOnlyAfterUpdate ==
    [][\A i \in DOMAIN rows :
          (rows[i].status # "pushed" /\ rows'[i].status = "pushed")
              => /\ pc = "sync_mark_pushed"
                 /\ i = Entry
                 /\ lastReq.op = "update_vehicle"
                 /\ lastReq.result = "ok"
                 /\ Len(sync.crm) = sync.ei
                 /\ sync.crm[sync.ei] = "applied"]_vars

\* C22, its case: a cycle in which one entry was not found, one entry's update
\* raised and one entry was pushed has handled its last entry.
PushedOnlyAfterUpdateWitness ==
    /\ pc = "sync_summary"
    /\ \E i, j, k \in DOMAIN sync.crm :
         /\ sync.crm[i] = "none"
         /\ sync.crm[j] = "update raised"
         /\ sync.crm[k] = "applied"
         /\ rows[sync.entries[i]].status = "failed"
         /\ rows[sync.entries[j]].status = "failed"
         /\ rows[sync.entries[k]].status = "pushed"

\* the PUT answers with a successful transport status and a JSON body that
\* does not echo both intended values
StaleResponses == {"stale", "stale_status", "stale_date"}

TokenBeforeRequest ==
    [][/\ pc \in {"sync_fetch", "sync_find", "sync_update"} => token
       /\ lastReq'.op # "none"
            => /\ lastReq'.sent > 0 => token
               /\ ~token => /\ lastReq'.sent = 0
                            /\ lastReq'.auths = 0
                            /\ lastReq'.result = "raise"]_vars

\* C24, its case: update_vehicle has been called on a client that never
\* authenticated and has raised without sending.
TokenBeforeRequestWitness ==
    /\ pc = "idle"
    /\ ~token
    /\ lastReq.op = "update_vehicle"
    /\ lastReq.sent = 0
    /\ lastReq.result = "raise"

EnsureIdempotent ==
    /\ bq.made.dataset <= 1
    /\ bq.made.table <= 1
    /\ \A p \in Procs :
         bq.call[p].again
            => /\ bq.call[p].creates = 0
               /\ bq.call[p].pc \notin {"create_dataset", "create_table"}
               /\ bq.call[p].result # "raised"

\* C26, its case: an instance has made its second ensure_resources call after
\* its first one created the dataset and the table, and the call has returned.
EnsureIdempotentWitness ==
    \E p \in Procs :
        /\ bq.call[p].n = 2
        /\ bq.call[p].again
        /\ bq.call[p].result = "returned"
        /\ bq.made.dataset = 1
        /\ bq.made.table = 1

\* C27 as stated: whatever the interleaving of the ensure_resources calls of
\* two instances, no call raises.
RaceTolerated == \A p \in Procs : bq.call[p].result # "raised"

\* C28: a notification whose send raises (sync summary, no-files notice,
\* ingest summary, header alert) leaves rows, objects and the FTP listing as
\* they were; the pipeline still returns the summary it had built (the sync
\* or ingest summary of the run), and after a header alert the per-file
\* handler goes on with the header error, not with the failure of the send.
SendFailureContained ==
    [][mail'.send = "raise" =>
         /\ rows' = rows /\ blobs' = blobs /\ remote' = remote
         /\ mail'.kind = "sync" =>
               pc' = "idle" /\ response' = SyncSummary(sync)
         /\ mail'.kind \in {"nofiles", "ingest"} =>
               pc' = "idle" /\ response' = IngestSummary(loop)
         /\ mail'.kind = "header" =>
               /\ pc' = "file_escape"
               /\ job'.exc = "Invalid CSV header"
               /\ job'.caught = "Invalid CSV header"]_vars

\* C28 witness: the sync summary of a run with a failed record could not be
\* sent, and the partial summary was returned all the same.
SendFailureContainedWitness ==
    /\ mail.kind = "sync" /\ mail.send = "raise"
    /\ pc = "idle"
    /\ response.outcome = "summary" /\ response.status = "partial"
    /\ response.failures # <<>>

\* C29: the sync summary mail goes to the failure recipients exactly when
\* the failures list is not empty (otherwise to the success recipients) and
\* its body has one line per failure, in order, with that failure's VIN and
\* error; the ingest summary mail goes to the failure recipients exactly when
\* some file report has a status other than "success".
SummaryAddressing ==
    /\ mail.kind = "sync" =>
          /\ mail.to = (IF sync.failures # <<>> THEN "failure_recipients"
                        ELSE "success_recipients")
          /\ Len(mail.lines) = Len(sync.failures)
          /\ \A i \in DOMAIN sync.failures :
                /\ mail.lines[i].vin = sync.failures[i].vin
                /\ mail.lines[i].error = sync.failures[i].error
    /\ mail.kind = "ingest" =>
          mail.to = (IF \E i \in DOMAIN loop.reports :
                           loop.reports[i].status # "success"
                     THEN "failure_recipients" ELSE "success_recipients")

\* C29 witness: a sync summary mail for two failed records with different
\* VINs and different errors, sent to the failure recipients.
SummaryAddressingWitness ==
    /\ mail.kind = "sync" /\ mail.to = "failure_recipients"
    /\ Len(sync.failures) = 2
    /\ sync.failures[1].vin # sync.failures[2].vin
    /\ sync.failures[1].error # sync.failures[2].error
    /\ Len(mail.lines) = 2

\* the positions of the two pipelines
IngestPcs == {"ingest_setup", "ingest_list", "ingest_iter"} \cup FilePcs

\* the rows a step changed
ChangedRows == {i \in DOMAIN rows : rows'[i] # rows[i]}

\* C30: a step of the ingest pipeline ends no mark_pushed and no
\* record_error and makes no row pushed; a step of the sync pipeline adds no
\* row, ends no mark_failed_by_file and changes at most one row, the entry
\* it is at; rows are added only by the staging step of the per-file
\* routine, and mark_failed_by_file runs only in its except clause.
RoleSeparation ==
    [][/\ pc \in IngestPcs =>
            /\ lastMut'.op \notin {"mark_pushed", "record_error"}
            /\ \A i \in ChangedRows : rows'[i].status = "failed"
       /\ pc \in SyncPcs =>
            /\ lastMut'.op # "mark_failed_by_file"
            /\ Len(rows') = Len(rows)
            /\ ChangedRows # {} =>
                  pc \in SyncLoopPcs /\ ChangedRows = {lastMut'.stage_id}
       /\ Len(rows') > Len(rows) => pc = "file_stage"
       /\ lastMut'.op = "mark_failed_by_file" => pc = "file_bulkfail"
       /\ lastMut'.op \in {"mark_pushed", "record_error"} =>
            pc \in SyncLoopPcs]_vars

\* C30 witness: the sync pipeline has just pushed one row by its stage_id
\* while another row carries the failure an ingest wrote for its whole file.
RoleSeparationWitness ==
    /\ lastMut.op = "mark_pushed" /\ lastMut.cause = "ok"
    /\ rows[lastMut.stage_id].status = "pushed"
    /\ \E i \in DOMAIN rows :
          /\ rows[i].status = "failed"
          /\ rows[i].error_message \notin {NotFoundMessage, ExcText}
          /\ rows[i].source_filename # rows[lastMut.stage_id].source_filename

\* row i of the table is pending
StillPending(i) == i \in DOMAIN rows /\ rows[i].status = "pending"

\* C31: the rows a cut-off sync invocation had fetched and not come to are
\* pending until the next fetch, and the next fetch that returns has them
\* all in its batch; with the trigger firing again and again and the CRM
\* and store calls completing, every pending row leaves pending.
Resumable ==
    /\ [](\A i \in cut : rows[i].status = "pending")
    /\ [][/\ (pc = "sync_fetch" /\ pc' = "sync_find") =>
               cut \subseteq {sync'.entries[k] : k \in DOMAIN sync'.entries}
          /\ (pc = "sync_fetch" /\ response'.status = "success") =>
               cut = {}]_vars
    /\ \A i \in 1..MaxBatch : StillPending(i) ~> ~StillPending(i)

\* C31 witness: an invocation was cut off after it had pushed the first row
\* of its batch of three; the other two rows are pending and a later
\* invocation is about to fetch.
ResumableWitness ==
    /\ pc = "sync_fetch"
    /\ cut = {2, 3}
    /\ rows[1].status = "pushed"
    /\ rows[2].status = "pending"
    /\ rows[3].status = "pending"

\* the loop is at an entry whose lookup returned no vehicle
NotFoundEntry ==
    /\ pc \in SyncLoopPcs
    /\ Len(sync.crm) = sync.ei
    /\ sync.crm[sync.ei] = "none"

\* C32: while the sync loop is at an entry whose lookup found nothing, no
\* step sends a CRM request (no update_vehicle, no creation) or goes to the
\* update; no other row than the entry's is changed and the entry's row is
\* not pushed; and when the loop leaves the entry, its row is failed, the
\* failure list has grown by one item, with the entry's VIN, and the
\* success count is what it was.
NotFoundOnlyFails ==
    [][NotFoundEntry =>
         /\ lastReq' = NoRequest
         /\ pc' \notin {"sync_update", "sync_mark_pushed"}
         /\ \A i \in DOMAIN rows : i # Entry => rows'[i] = rows[i]
         /\ rows'[Entry].status \in {"pending", "failed"}
         /\ pc' \in {"sync_find", "sync_summary"} =>
               /\ rows'[Entry].status = "failed"
               /\ Len(sync'.failures) = Len(sync.failures) + 1
               /\ sync'.failures[Len(sync'.failures)].vin = rows[Entry].vin
               /\ sync'.successes = sync.successes]_vars

\* C32 witness: a cycle over two entries has reached its summary; the
\* lookup of the first found nothing and its row is failed with the "not
\* found" message, the second was updated and pushed.
NotFoundOnlyFailsWitness ==
    /\ pc = "sync_summary"
    /\ Len(sync.entries) = 2
    /\ sync.crm = <<"none", "applied">>
    /\ rows[sync.entries[1]].status = "failed"
    /\ rows[sync.entries[1]].error_message = NotFoundMessage
    /\ rows[sync.entries[2]].status = "pushed"
    /\ Len(sync.failures) = 1
    /\ lastReq = NoRequest

\* C33: a summary returned by execute_sync_pipeline has records_processed =
\* successful_updates + failed_updates and status "success" when there is no
\* failure, "partial" otherwise; inside the loop the entries already handled
\* are each counted once, as a success or as a failure, and at the summary
\* every fetched entry is.
SummaryCounts ==
    /\ (response.route = "sync" /\ response.outcome = "summary"
            /\ response.status # "error") =>
          /\ response.processed = response.successes + Len(response.failures)
          /\ response.status =
                (IF Len(response.failures) = 0 THEN "success" ELSE "partial")
    /\ pc \in SyncLoopPcs =>
          sync.successes + Len(sync.failures) = sync.ei - 1
    /\ pc = "sync_summary" =>
          sync.successes + Len(sync.failures) = Len(sync.entries)

\* C33 witness: a returned summary of three records, one success and two
\* failures, with status "partial".
SummaryCountsWitness ==
    /\ pc = "idle"
    /\ response.route = "sync" /\ response.outcome = "summary"
    /\ response.processed = 3
    /\ response.successes = 1
    /\ Len(response.failures) = 2
    /\ response.status = "partial"

\* C34: in every state of the table a pending or pushed row has no
\* error_message and a failed row has one; and every step that changes a row
\* gives it the status of the mutation that ended in the step together with
\* that mutation's error_message (none for mark_pushed), in the same step.
ErrorWithStatus ==
    /\ [](\A i \in DOMAIN rows :
            /\ rows[i].status \in {"pending", "pushed"} =>
                  rows[i].error_message = NoError
            /\ rows[i].status = "failed" => rows[i].error_message # NoError)
    /\ [][\A i \in DOMAIN rows :
            rows'[i] # rows[i] =>
              /\ lastMut'.op # "none"
              /\ rows'[i].status =
                    (IF lastMut'.op = "mark_pushed" THEN "pushed" ELSE "failed")
              /\ rows'[i].error_message =
                    (IF lastMut'.op = "mark_pushed" THEN NoError
                     ELSE lastMut'.error_message)]_vars

\* C34 witness: the table holds a pushed row without error_message and a
\* failed row, and the record_error that has just returned gave that row its
\* message.
ErrorWithStatusWitness ==
    /\ lastMut.op = "record_error" /\ lastMut.cause = "ok"
    /\ lastMut.stage_id \in DOMAIN rows
    /\ rows[lastMut.stage_id].status = "failed"
    /\ rows[lastMut.stage_id].error_message = lastMut.error_message
    /\ \E j \in DOMAIN rows :
          rows[j].status = "pushed" /\ rows[j].error_message = NoError

\* C35: every retry of a mutation answers one streaming-buffer rejection;
\* a mutation whose query was rejected for another reason (a BadRequest that
\* is not about the streaming buffer, or another exception) has raised with
\* no retry after that rejection, hence with no retry at all when it came
\* first, and has left the table as it was.
OnlyConflictRetried ==
    [][lastMut'.op # "none" =>
         /\ attempts' <= lastMut'.rejections
         /\ lastMut'.cause \in {"badrequest", "other"} =>
               /\ lastMut'.result = "raised"
               /\ attempts' = lastMut'.rejections
               /\ rows' = rows]_vars

\* C35 witness: a mutation whose first query was rejected with a BadRequest
\* that is not about the streaming buffer has raised without a retry.
OnlyConflictRetriedWitness ==
    /\ lastMut.op # "none"
    /\ lastMut.cause = "badrequest"
    /\ lastMut.rejections = 0
    /\ lastMut.result = "raised"
    /\ attempts = 0

\* the stage ids of the batch the cycle fetched
Batch == {sync.entries[k] : k \in DOMAIN sync.entries}

\* C36: the batch a sync cycle fetches holds only rows that are pending at
\* the fetch, each once; the entries the loop has not handled yet are still
\* pending, so every lookup and every update the cycle sends is for a row
\* that is pending when the request is sent: a pushed or failed row is in no
\* batch and is the subject of no CRM request.
OnlyPendingSelected ==
    /\ [](pc \in SyncLoopPcs =>
            /\ \A k \in sync.ei..Len(sync.entries) :
                  rows[sync.entries[k]].status = "pending"
            /\ Cardinality(Batch) = Len(sync.entries))
    /\ [][(pc = "sync_fetch" /\ pc' = "sync_find") =>
            \A k \in DOMAIN sync'.entries :
               rows[sync'.entries[k]].status = "pending"]_vars
    /\ [][(pc \in SyncPcs
              /\ lastReq'.op \in {"find_vehicle_id", "update_vehicle"}) =>
            /\ pc \in {"sync_find", "sync_update"}
            /\ rows[Entry].status = "pending"]_vars

\* C36 witness: a cycle has fetched its batch and is about to look up its
\* first entry, while the table also holds a row that an earlier cycle
\* pushed and a row that an earlier cycle failed as not found, neither of
\* them in the batch.
OnlyPendingSelectedWitness ==
    /\ pc = "sync_find"
    /\ sync.ei = 1
    /\ \E i, j \in DOMAIN rows \ Batch :
          /\ rows[i].status = "pushed"
          /\ rows[j].status = "failed"
          /\ rows[j].error_message = NotFoundMessage

\* C37 as stated: when a sync cycle reaches its summary, the row of every
\* entry whose update_vehicle returned in the cycle is pushed, and no such
\* entry's VIN is in the failure list.
AppliedMeansPushed ==
    pc = "sync_summary" =>
        \A k \in AppliedEntries :
            /\ rows[sync.entries[k]].status = "pushed"
            /\ \A j \in DOMAIN sync.failures :
                  sync.failures[j].vin # rows[sync.entries[k]].vin

====
